---- MODULE Spec2Model ----
(***************************************************************************)
(* Model of the RAG index sync engine, rag/sync.py                         *)
(* (src/src/claude_code_bootstrap/rag_sync/templates/sync.py).             *)
(*                                                                         *)
(* One reconciliation pass is sync(): read_config, collect_files,          *)
(* load_manifest, the ingest loop, the delete loop, the no-op test,        *)
(* save_manifest and the summary.  The pass is modelled step by step so    *)
(* that the filesystem can change, the indexer can fail and the process    *)
(* can be killed between any two steps.                                    *)
(***************************************************************************)
EXTENDS Integers, Sequences, FiniteSets, TLC

(***************************************************************************)
(* Bounds of the model.                                                    *)
(***************************************************************************)
MaxClock == 2    \* passes that are started (the clock ticks once per pass)
MaxEdits == 2    \* writes by others to the project tree and to the manifest file
MaxCalls == 3    \* calls of wire_hooks, or of write_claude_md, in a row
MaxLen == 5      \* length of a prior CLAUDE.md, in pieces of text

(***************************************************************************)
(* The project tree.  A relative path is a tuple of path components.       *)
(***************************************************************************)
File_a == <<"src", "a.py">>
File_b == <<"src", "b.py">>
File_t == <<"src", "notes.txt">>
Files  == {File_a, File_b, File_t}

BaseDir == "/proj"

\* what a file can hold; 0 stands for "no such file"
Contents == {1, 2}

\* pathlib's Path.suffix on the names used: the part of the last component
\* from its last dot on, empty when there is no dot or the only dot leads
Suffix(p) ==
    CASE p[Len(p)] = "a.py"      -> ".py"
      [] p[Len(p)] = "b.py"      -> ".py"
      [] p[Len(p)] = "deep.py"   -> ".py"
      [] p[Len(p)] = "pkg.py"    -> ".py"
      [] p[Len(p)] = "notes.txt" -> ".txt"
      [] p[Len(p)] = "m.md"      -> ".md"
      [] p[Len(p)] = "README.md" -> ".md"
      [] p[Len(p)] = ".py"       -> ""
      [] p[Len(p)] = "Makefile"  -> ""
      [] OTHER                   -> ""

\* base_dir / rel
AbsPath(base, rel) == [base |-> base, rel |-> rel]

\* str(path.relative_to(base_dir))
RelativeTo(abs, base) == abs.rel

\* q is p or lies below p
IsPrefix(p, q) == Len(p) <= Len(q) /\ SubSeq(q, 1, Len(p)) = p

\* the value None
None == <<"None">>

\* datetime.isoformat() of the instant t
IsoFormat(t) == <<"iso", t>>

\* a dict with no keys
EmptyDict == <<>>

\* dict.get(key, default)
DictGet(d, k, default) == IF k \in DOMAIN d THEN d[k] ELSE default

\* d[k] = v
DictSet(d, k, v) == [x \in DOMAIN d \cup {k} |-> IF x = k THEN v ELSE d[x]]

\* del d[k]
DictDel(d, k) == [x \in DOMAIN d \ {k} |-> d[x]]

(***************************************************************************)
(* config.toml as read by read_config.                                     *)
(***************************************************************************)
Config == [base_dir       |-> BaseDir,
           included_paths |-> << <<"src">>, <<"docs">>, <<"src", "a.py">> >>,
           extensions     |-> {".py"}]

VARIABLES
    disk,        \* the project tree: file -> content, 0 when the file does not exist
    mfile,       \* rag/.sync_manifest.json as it is on disk
    clock,       \* the wall clock
    pc,          \* where the sync process is
    current_files, \* collect_files' result (its keys; the values are base_dir / key)
    manifest,    \* the loaded manifest dict
    tracked,     \* manifest.get("files", {})
    todo,        \* keys the ingest loop has not visited yet
    dtodo,       \* keys the delete loop has not visited yet
    changed, removed, failed,   \* sync's counters
    exit_code,   \* exit status of the last pass that ended, -1 before
    stdout, stderr,             \* what the pass has printed
    \* ---- history of the pass, for stating the properties ----
    outcome,     \* how the last pass ended
    calls,       \* the mcp_call invocations of the pass, in order
    saved,       \* save_manifest was entered in this pass
    hashed,      \* key -> digest hash_file returned in this pass
    atStart,     \* the tree and the manifest file as they were when the pass started
    chg,         \* the editor wrote the tree since the pass started
    mchg,        \* someone else wrote the manifest file since the pass started
    prev,        \* the history of the pass before
    edits,       \* number of writes by others so far
    \* ---- used by the other specifications only ----
    procs,       \* SpecRace: the sync processes running side by side
    probe,       \* SpecCollect: a configuration, a tree and collect_files' result
    settings_run, \* SpecHooks: .claude/settings.json and the calls of wire_hooks on it
    claude_run   \* SpecClaudeMd: CLAUDE.md and the calls of write_claude_md on it

vars == <<disk, mfile, clock, pc, current_files, manifest, tracked, todo, dtodo,
          changed, removed, failed, exit_code, stdout, stderr,
          outcome, calls, saved, hashed, atStart, chg, mchg, prev, edits,
          procs, probe, settings_run, claude_run>>

\* Spec has one process and the fixed configuration
aside == <<procs, probe, settings_run, claude_run>>
NoProcs == <<>>
NoProbe == <<>>
NoRun == <<>>


(***************************************************************************)
(* collect_files                                                           *)
(***************************************************************************)
\* Path.exists(): a file of the tree, or a directory (a directory is in the
\* tree while a file lies below it; an empty directory contributes no file,
\* exactly like a missing one)
Exists(d, p) == \E f \in DOMAIN d : d[f] # 0 /\ IsPrefix(p, f)

\* Path.is_file()
IsFile(d, p) == p \in DOMAIN d /\ d[p] # 0

\* target.rglob("*") restricted to path.is_file()
RGlobFiles(d, p) == {f \in DOMAIN d : d[f] # 0 /\ IsPrefix(p, f) /\ f # p}

\* variant with a slip: the suffix filter lets every file through
SuffixOk_Any(config, p) == TRUE

\* the suffix filter of collect_files
SuffixOk(config, p) == Suffix(p) \in config.extensions

\* the keys one included_paths entry contributes
Contribution(config, d, rel) ==
    IF ~Exists(d, rel) THEN {}
    ELSE IF IsFile(d, rel)
         THEN (IF SuffixOk(config, rel) THEN {rel} ELSE {})
         ELSE {f \in RGlobFiles(d, rel) : SuffixOk(config, f)}

RECURSIVE CollectFrom(_, _, _, _)
CollectFrom(config, d, i, files) ==
    IF i > Len(config.included_paths) THEN files
    ELSE LET keys == Contribution(config, d, config.included_paths[i])
             next == [k \in DOMAIN files \cup keys |->
                        IF k \in keys
                        THEN AbsPath(config.base_dir,
                                     RelativeTo(AbsPath(config.base_dir, k), config.base_dir))
                        ELSE files[k]]
         IN  CollectFrom(config, d, i + 1, next)

CollectFiles(config, d) == CollectFrom(config, d, 1, EmptyDict)

(***************************************************************************)
(* hash_file                                                               *)
(***************************************************************************)
\* variant with a slip: an unreadable file is hashed as if it were empty
HashRaises_Never(d, rel) == FALSE

\* open(path, "rb") raises when the file is not there
HashRaises(d, rel) == d[rel] = 0

\* variant with a slip: the digest does not depend on the content
HashFile_Constant(d, rel) == <<"sha256", 1>>

\* "sha256:" + hexdigest of the content
HashFile(d, rel) == <<"sha256", d[rel]>>

(***************************************************************************)
(* load_manifest / save_manifest                                           *)
(***************************************************************************)
\* The manifest file: absent, a JSON document (data is the decoded object)
\* or text that is not JSON (an empty or cut-off file).
AbsentFile  == [kind |-> "absent",  data |-> EmptyDict]
PartialFile == [kind |-> "partial", data |-> EmptyDict]
JsonFile(data) == [kind |-> "json", data |-> data]

\* json.load raises JSONDecodeError
LoadRaises(mf) == mf.kind = "partial"

LoadManifest(mf) ==
    IF mf.kind = "absent"
    THEN [files |-> EmptyDict, last_sync |-> None]
    ELSE mf.data

\* manifest.get("files", {})
\* variant with a slip: the pass forgets what the manifest tracks
TrackedOf_Fresh(m) == EmptyDict

TrackedOf(m) == DictGet(m, "files", EmptyDict)

\* variant with a slip: last_sync is left as loaded
Stamp_Keeps(m, now) == m

\* manifest["last_sync"] = now
Stamp(m, now) == DictSet(m, "last_sync", IsoFormat(now))

\* open(..., "w"): the file exists and is empty from here on
OpenForWrite(mf) == PartialFile

\* json.dump and the close of the with block
DumpAndClose(m) == JsonFile(m)

(***************************************************************************)
(* mcp_call                                                                *)
(***************************************************************************)
\* what the external process can do: exit 0, exit non-zero, or not start at
\* all (subprocess.run raises when the mcp executable is not found)
McpResults == {"ok", "fail", "raise"}

McpRaises(r) == r = "raise"
\* variant with a slip: the result of the call is not looked at
McpReturn_Always(r) == TRUE

McpReturn(r) == r = "ok"

\* the line mcp_call prints to stderr when returncode != 0
McpDiagnostic(tool, path) == [kind |-> "failed_for", tool |-> tool, path |-> path]

\* a record of one invocation: what was asked and what came back
Call(tool, path, r) == [tool |-> tool, path |-> path, res |-> r]

(***************************************************************************)
(* the decisions of sync                                                   *)
(***************************************************************************)
\* variants of the test with a slip in it: every file, or only untracked files
NeedsIngest_Always(t, rel, new_hash) == TRUE
NeedsIngest_OnlyNew(t, rel, new_hash) == rel \notin DOMAIN t

\* tracked.get(rel) != new_hash
NeedsIngest(t, rel, new_hash) == DictGet(t, rel, None) # new_hash

\* variants with a slip: a tracked path is never, or always, taken as removed
NeedsDelete_Never(cur, rel) == FALSE
NeedsDelete_Always(cur, rel) == TRUE

\* rel not in current_files
NeedsDelete(cur, rel) == rel \notin DOMAIN cur

\* variants with a slip: no fast path at all, or failures not counted as work
IsNoOp_Never(c, r, f) == FALSE
IsNoOp_IgnoresFailed(c, r, f) == c = 0 /\ r = 0

\* changed == 0 and removed == 0 and failed == 0
IsNoOp(c, r, f) == c = 0 /\ r = 0 /\ f = 0

\* variant with a slip: the digest is recorded whatever the call returned
AfterIngest_RecordsFailure(t, rel, new_hash, ok) == DictSet(t, rel, new_hash)

\* tracked after the ingest call returned
AfterIngest(t, rel, new_hash, ok) == IF ok THEN DictSet(t, rel, new_hash) ELSE t

\* variants with a slip: the entry is dropped whatever the call returned, or never
AfterDelete_DropsOnFailure(t, rel, ok) == DictDel(t, rel)
AfterDelete_KeepsEntry(t, rel, ok) == t

\* tracked after the delete call returned
AfterDelete(t, rel, ok) == IF ok THEN DictDel(t, rel) ELSE t

\* variant with a slip: the key is handed over without base_dir
DeletePath_Relative(config, rel) == AbsPath(".", rel)

\* the path handed to delete_file
DeletePath(config, rel) == AbsPath(config.base_dir, rel)

\* variant with a slip: failures never reach the exit status
ReportsFailure_Never(f) == FALSE

\* the branch taken after save_manifest
ReportsFailure(f) == f # 0

\* variant with a slip: the summary of a failing pass leaves the failures out
SummaryErr_WithoutFailed(c, r, f) == [kind |-> "summary", changed |-> c, removed |-> r]

SummaryErr(c, r, f) == [kind |-> "summary", changed |-> c, removed |-> r, failed |-> f]
SummaryOut(c, r)    == [kind |-> "summary", changed |-> c, removed |-> r]
Traceback           == [kind |-> "traceback"]

(***************************************************************************)
(* Initial state: an installed project that has never been synced.         *)
(***************************************************************************)
NoHistory == [outcome |-> "none", chg |-> FALSE, mchg |-> FALSE, failedCalls |-> {}]

\* the calls of a pass that returned False
FailedCalls(cs) ==
    {[tool |-> cs[i].tool, path |-> cs[i].path] : i \in {j \in DOMAIN cs : cs[j].res = "fail"}}

\* a project whose tree was synced completely by an earlier pass at time 0
SyncedManifest(d) ==
    JsonFile([files |-> [k \in DOMAIN CollectFiles(Config, d) |-> HashFile(d, k)],
              last_sync |-> IsoFormat(0)])

Init ==
    /\ disk = [f \in Files |-> 1]
    /\ mfile \in {AbsentFile, SyncedManifest(disk)}
    /\ clock = 0
    /\ pc = "idle"
    /\ current_files = EmptyDict
    /\ manifest = EmptyDict
    /\ tracked = EmptyDict
    /\ todo = {}
    /\ dtodo = {}
    /\ changed = 0 /\ removed = 0 /\ failed = 0
    /\ exit_code = -1
    /\ stdout = <<>> /\ stderr = <<>>
    /\ outcome = "none"
    /\ calls = <<>>
    /\ saved = FALSE
    /\ hashed = EmptyDict
    /\ atStart = [disk |-> disk, mfile |-> mfile]
    /\ chg = FALSE
    /\ mchg = FALSE
    /\ prev = NoHistory
    /\ edits = 0
    /\ procs = NoProcs
    /\ probe = NoProbe
    /\ settings_run = NoRun /\ claude_run = NoRun

(***************************************************************************)
(* The pass.                                                               *)
(***************************************************************************)
\* the process ends: by sys.exit, by returning from sync, by an uncaught
\* exception (Python prints the traceback and exits 1) or by being killed
Ends(how, code) ==
    /\ pc' = "idle"
    /\ outcome' = how
    /\ exit_code' = code

\* the memory of a process that did not reach its normal end is gone
Gone ==
    /\ current_files' = EmptyDict
    /\ manifest' = EmptyDict
    /\ tracked' = EmptyDict
    /\ todo' = {}
    /\ dtodo' = {}
    /\ changed' = 0 /\ removed' = 0 /\ failed' = 0
    /\ hashed' = EmptyDict

Raise ==
    /\ Ends("exception", 1)
    /\ stderr' = Append(stderr, Traceback)
    /\ Gone

\* sync, lines 164-175: read_config, collect_files, load_manifest, counters
StartPass ==
    /\ pc = "idle"
    /\ clock < MaxClock
    /\ clock' = clock + 1
    /\ prev' = [outcome |-> outcome, chg |-> chg, mchg |-> mchg,
                failedCalls |-> FailedCalls(calls)]
    /\ atStart' = [disk |-> disk, mfile |-> mfile]
    /\ chg' = FALSE
    /\ mchg' = FALSE
    /\ calls' = <<>>
    /\ saved' = FALSE
    /\ stdout' = <<>>
    /\ IF LoadRaises(mfile)
       THEN /\ Ends("exception", 1)
            /\ stderr' = <<Traceback>>
            /\ Gone
       ELSE /\ pc' = "ingest"
            /\ outcome' = "running"
            /\ exit_code' = -1
            /\ stderr' = <<>>
            /\ current_files' = CollectFiles(Config, disk)
            /\ manifest' = LoadManifest(mfile)
            /\ tracked' = TrackedOf(LoadManifest(mfile))
            /\ todo' = DOMAIN CollectFiles(Config, disk)
            /\ dtodo' = {}
            /\ changed' = 0 /\ removed' = 0 /\ failed' = 0
            /\ hashed' = EmptyDict
    /\ UNCHANGED <<disk, mfile, edits>>
    /\ UNCHANGED aside

\* one iteration of "for rel, abs_path in current_files.items()"
IngestStep(rel, r) ==
    /\ pc = "ingest"
    /\ rel \in todo
    /\ IF HashRaises(disk, rel)
       THEN /\ r = "ok"
            /\ Raise
            /\ UNCHANGED calls
       ELSE LET new_hash == HashFile(disk, rel) IN
            IF NeedsIngest(tracked, rel, new_hash)
            THEN /\ calls' = Append(calls, Call("ingest_file", current_files[rel], r))
                 /\ IF McpRaises(r)
                    THEN Raise
                    ELSE /\ tracked' = AfterIngest(tracked, rel, new_hash, McpReturn(r))
                         /\ changed' = IF McpReturn(r) THEN changed + 1 ELSE changed
                         /\ failed' = IF McpReturn(r) THEN failed ELSE failed + 1
                         /\ stderr' = IF McpReturn(r) THEN stderr
                                      ELSE Append(stderr,
                                             McpDiagnostic("ingest_file", current_files[rel]))
                         /\ todo' = todo \ {rel}
                         /\ hashed' = DictSet(hashed, rel, new_hash)
                         /\ UNCHANGED <<pc, outcome, exit_code, current_files, manifest,
                                        dtodo, removed>>
            ELSE /\ r = "ok"
                 /\ todo' = todo \ {rel}
                 /\ hashed' = DictSet(hashed, rel, new_hash)
                 /\ UNCHANGED <<tracked, changed, failed, calls, stderr,
                                pc, outcome, exit_code, current_files, manifest,
                                dtodo, removed>>
    /\ UNCHANGED <<disk, mfile, clock, stdout, saved, atStart, chg, mchg, prev, edits>>
    /\ UNCHANGED aside

\* variant with a slip: the manifest is written as soon as the ingest loop ends
IngestDone_Persists ==
    /\ pc = "ingest"
    /\ todo = {}
    /\ pc' = "delete"
    /\ dtodo' = DOMAIN tracked
    /\ mfile' = JsonFile(DictSet(manifest, "files", tracked))
    /\ UNCHANGED <<disk, clock, current_files, manifest, tracked, todo,
                   changed, removed, failed, exit_code, stdout, stderr, outcome,
                   calls, saved, hashed, atStart, chg, mchg, prev, edits>>
    /\ UNCHANGED aside

\* the ingest loop is exhausted; "for rel in list(tracked.keys())" takes its copy
IngestDone ==
    /\ pc = "ingest"
    /\ todo = {}
    /\ pc' = "delete"
    /\ dtodo' = DOMAIN tracked
    /\ UNCHANGED <<disk, mfile, clock, current_files, manifest, tracked, todo,
                   changed, removed, failed, exit_code, stdout, stderr, outcome,
                   calls, saved, hashed, atStart, chg, mchg, prev, edits>>
    /\ UNCHANGED aside

\* variant with a slip: a tracked path counts as removed when it is gone from disk
DeleteStep_ByDiskExistence(rel, r) ==
    /\ pc = "delete"
    /\ rel \in dtodo
    /\ IF disk[rel] = 0
       THEN /\ calls' = Append(calls, Call("delete_file", DeletePath(Config, rel), r))
            /\ IF McpRaises(r)
               THEN Raise
               ELSE /\ tracked' = AfterDelete(tracked, rel, McpReturn(r))
                    /\ removed' = IF McpReturn(r) THEN removed + 1 ELSE removed
                    /\ failed' = IF McpReturn(r) THEN failed ELSE failed + 1
                    /\ stderr' = IF McpReturn(r) THEN stderr
                                 ELSE Append(stderr,
                                        McpDiagnostic("delete_file", DeletePath(Config, rel)))
                    /\ dtodo' = dtodo \ {rel}
                    /\ UNCHANGED <<pc, outcome, exit_code, current_files, manifest,
                                   todo, changed, hashed>>
       ELSE /\ r = "ok"
            /\ dtodo' = dtodo \ {rel}
            /\ UNCHANGED <<tracked, removed, failed, calls, stderr, pc, outcome,
                           exit_code, current_files, manifest, todo, changed, hashed>>
    /\ UNCHANGED <<disk, mfile, clock, stdout, saved, atStart, chg, mchg, prev, edits>>
    /\ UNCHANGED aside


\* variant with a slip: removed paths are also handled while the ingest loop
\* is still running
DeleteStep_AnyPhase(rel, r) ==
    /\ pc \in {"ingest", "delete"}
    /\ IF pc = "delete" THEN rel \in dtodo ELSE rel \in DOMAIN tracked
    /\ IF NeedsDelete(current_files, rel)
       THEN /\ calls' = Append(calls, Call("delete_file", DeletePath(Config, rel), r))
            /\ IF McpRaises(r)
               THEN Raise
               ELSE /\ tracked' = AfterDelete(tracked, rel, McpReturn(r))
                    /\ removed' = IF McpReturn(r) THEN removed + 1 ELSE removed
                    /\ failed' = IF McpReturn(r) THEN failed ELSE failed + 1
                    /\ stderr' = IF McpReturn(r) THEN stderr
                                 ELSE Append(stderr,
                                        McpDiagnostic("delete_file", DeletePath(Config, rel)))
                    /\ dtodo' = dtodo \ {rel}
                    /\ UNCHANGED <<pc, outcome, exit_code, current_files, manifest,
                                   todo, changed, hashed>>
       ELSE /\ r = "ok"
            /\ pc = "delete"
            /\ dtodo' = dtodo \ {rel}
            /\ UNCHANGED <<tracked, removed, failed, calls, stderr, pc, outcome,
                           exit_code, current_files, manifest, todo, changed, hashed>>
    /\ UNCHANGED <<disk, mfile, clock, stdout, saved, atStart, chg, mchg, prev, edits>>
    /\ UNCHANGED aside

\* one iteration of the delete loop
DeleteStep(rel, r) ==
    /\ pc = "delete"
    /\ rel \in dtodo
    /\ IF NeedsDelete(current_files, rel)
       THEN /\ calls' = Append(calls, Call("delete_file", DeletePath(Config, rel), r))
            /\ IF McpRaises(r)
               THEN Raise
               ELSE /\ tracked' = AfterDelete(tracked, rel, McpReturn(r))
                    /\ removed' = IF McpReturn(r) THEN removed + 1 ELSE removed
                    /\ failed' = IF McpReturn(r) THEN failed ELSE failed + 1
                    /\ stderr' = IF McpReturn(r) THEN stderr
                                 ELSE Append(stderr,
                                        McpDiagnostic("delete_file", DeletePath(Config, rel)))
                    /\ dtodo' = dtodo \ {rel}
                    /\ UNCHANGED <<pc, outcome, exit_code, current_files, manifest,
                                   todo, changed, hashed>>
       ELSE /\ r = "ok"
            /\ dtodo' = dtodo \ {rel}
            /\ UNCHANGED <<tracked, removed, failed, calls, stderr, pc, outcome,
                           exit_code, current_files, manifest, todo, changed, hashed>>
    /\ UNCHANGED <<disk, mfile, clock, stdout, saved, atStart, chg, mchg, prev, edits>>
    /\ UNCHANGED aside

\* lines 195-198: the fast no-op exit, or manifest["files"] = tracked
DeleteDone ==
    /\ pc = "delete"
    /\ dtodo = {}
    /\ IF IsNoOp(changed, removed, failed)
       THEN /\ Ends("noop", 0)
            /\ UNCHANGED manifest
       ELSE /\ pc' = "save"
            /\ manifest' = DictSet(manifest, "files", tracked)
            /\ UNCHANGED <<outcome, exit_code>>
    /\ UNCHANGED <<disk, mfile, clock, current_files, tracked, todo, dtodo,
                   changed, removed, failed, stdout, stderr,
                   calls, saved, hashed, atStart, chg, mchg, prev, edits>>
    /\ UNCHANGED aside

\* save_manifest, lines 117-118: stamp, then open the file for writing
SaveOpen ==
    /\ pc = "save"
    /\ pc' = "dump"
    /\ saved' = TRUE
    /\ manifest' = Stamp(manifest, clock)
    /\ mfile' = OpenForWrite(mfile)
    /\ UNCHANGED <<disk, clock, current_files, tracked, todo, dtodo,
                   changed, removed, failed, exit_code, stdout, stderr, outcome,
                   calls, hashed, atStart, chg, mchg, prev, edits>>
    /\ UNCHANGED aside

\* save_manifest, line 119 and the end of the with block
SaveDump ==
    /\ pc = "dump"
    /\ pc' = "report"
    /\ mfile' = DumpAndClose(manifest)
    /\ UNCHANGED <<disk, clock, current_files, manifest, tracked, todo, dtodo,
                   changed, removed, failed, exit_code, stdout, stderr, outcome,
                   calls, saved, hashed, atStart, chg, mchg, prev, edits>>
    /\ UNCHANGED aside

\* variant with a slip: the summary of a failing pass is printed on both channels
Report_BothChannels ==
    /\ pc = "report"
    /\ IF ReportsFailure(failed)
       THEN /\ stderr' = Append(stderr, SummaryErr(changed, removed, failed))
            /\ stdout' = Append(stdout, SummaryOut(changed, removed))
            /\ Ends("failure", 1)
       ELSE /\ stdout' = Append(stdout, SummaryOut(changed, removed))
            /\ Ends("success", 0)
            /\ UNCHANGED stderr
    /\ UNCHANGED <<disk, mfile, clock, current_files, manifest, tracked, todo, dtodo,
                   changed, removed, failed, calls, saved, hashed, atStart, chg, mchg,
                   prev, edits>>
    /\ UNCHANGED aside

\* lines 201-208: the summary and the exit status
Report ==
    /\ pc = "report"
    /\ IF ReportsFailure(failed)
       THEN /\ stderr' = Append(stderr, SummaryErr(changed, removed, failed))
            /\ Ends("failure", 1)
            /\ UNCHANGED stdout
       ELSE /\ stdout' = Append(stdout, SummaryOut(changed, removed))
            /\ Ends("success", 0)
            /\ UNCHANGED stderr
    /\ UNCHANGED <<disk, mfile, clock, current_files, manifest, tracked, todo, dtodo,
                   changed, removed, failed, calls, saved, hashed, atStart, chg, mchg,
                   prev, edits>>
    /\ UNCHANGED aside

\* the process is killed (or the machine stops) between two steps
Kill ==
    /\ pc # "idle"
    /\ Ends("killed", 137)
    /\ Gone
    /\ UNCHANGED <<disk, mfile, clock, stdout, stderr, calls, saved, atStart, chg, mchg,
                   prev, edits>>
    /\ UNCHANGED aside

(***************************************************************************)
(* The environment.                                                        *)
(***************************************************************************)
\* the editor creates, rewrites or removes a file of the tree
EditFile(f, c) ==
    /\ edits < MaxEdits
    /\ c # disk[f]
    /\ disk' = [disk EXCEPT ![f] = c]
    /\ edits' = edits + 1
    /\ chg' = TRUE
    /\ UNCHANGED <<mfile, clock, pc, current_files, manifest, tracked, todo, dtodo,
                   changed, removed, failed, exit_code, stdout, stderr, outcome,
                   calls, saved, hashed, atStart, mchg, prev>>
    /\ UNCHANGED aside

\* the manifest file is damaged from outside while no pass runs: cut off, or
\* replaced by a JSON object that has lost its "files" key
DamagedFiles == {PartialFile, JsonFile(EmptyDict)}

DamageManifest(mf) ==
    /\ pc = "idle"
    /\ edits < MaxEdits
    /\ mfile.kind = "json"
    /\ mf # mfile
    /\ mfile' = mf
    /\ edits' = edits + 1
    /\ mchg' = TRUE
    /\ UNCHANGED <<disk, clock, pc, current_files, manifest, tracked, todo, dtodo,
                   changed, removed, failed, exit_code, stdout, stderr, outcome,
                   calls, saved, hashed, atStart, chg, prev>>
    /\ UNCHANGED aside

Next ==
    \/ StartPass
    \/ \E rel \in Files, r \in McpResults : IngestStep(rel, r)
    \/ IngestDone
    \/ \E rel \in Files, r \in McpResults : DeleteStep(rel, r)
    \/ DeleteDone
    \/ SaveOpen
    \/ SaveDump
    \/ Report
    \/ Kill
    \/ \E f \in Files, c \in Contents \cup {0} : EditFile(f, c)
    \/ \E mf \in DamagedFiles : DamageManifest(mf)

Spec == Init /\ [][Next]_vars

(***************************************************************************)
(* Vocabulary of the properties.  These definitions read the state and the *)
(* history only; they use none of the operators that model sync's          *)
(* decisions.                                                              *)
(***************************************************************************)
\* the pass has ended by reaching the end of sync (sys.exit or return)
Completed == pc = "idle" /\ outcome \in {"noop", "success", "failure"}

\* the pass has ended by itself: completed, or aborted by an exception
EndedByItself == pc = "idle" /\ outcome \in {"noop", "success", "failure", "exception"}

\* the files mapping of a manifest file (empty when there is none to read)
FilesOf(mf) ==
    IF mf.kind = "json" /\ "files" \in DOMAIN mf.data THEN mf.data.files ELSE <<>>

\* the tracked mapping the pass started from, and the one persisted now
StartTracked == FilesOf(atStart.mfile)
Persisted    == FilesOf(mfile)

\* entry of a mapping, <<"None">> when there is none
Entry(m, rel) == IF rel \in DOMAIN m THEN m[rel] ELSE <<"None">>

\* the digest of what the tree holds at rel
DigestOnDisk(rel) == <<"sha256", disk[rel]>>

\* the configured scope: existing files with a listed suffix below an included path
InScope(d, rel) ==
    /\ d[rel] # 0
    /\ Suffix(rel) \in Config.extensions
    /\ \E i \in DOMAIN Config.included_paths : IsPrefix(Config.included_paths[i], rel)

\* positions in the call log
CallsOf(tool, rel) ==
    {i \in DOMAIN calls : calls[i].tool = tool /\ calls[i].path.rel = rel}
CallsWith(tool, rel, res) == {i \in CallsOf(tool, rel) : calls[i].res = res}
AllCalls(tool) == {i \in DOMAIN calls : calls[i].tool = tool}
CalledRels(tool) == {calls[i].path.rel : i \in AllCalls(tool)}
SomeCallFailed == \E i \in DOMAIN calls : calls[i].res = "fail"
EveryCallOk == \A i \in DOMAIN calls : calls[i].res = "ok"

\* nobody but the pass wrote the tree or the manifest file since the pass started
Undisturbed == ~chg /\ ~mchg

\* ... nor since the pass before started
UndisturbedSincePrev == Undisturbed /\ ~prev.chg /\ ~prev.mchg

\* the pass found nothing to do and printed nothing, and left the manifest file alone
QuietNoOp ==
    /\ outcome = "noop"
    /\ exit_code = 0
    /\ calls = <<>>
    /\ changed = 0 /\ removed = 0 /\ failed = 0
    /\ ~saved
    /\ mfile = atStart.mfile
    /\ stdout = <<>> /\ stderr = <<>>

(***************************************************************************)
(* C1 -- Idempotence.                                                      *)
(***************************************************************************)
\* C1 as stated: whenever sync has been run twice in a row and nothing wrote
\* the tree or the manifest since the first run began, the second run makes no
\* call, counts nothing, does not save, leaves the manifest file as it found it
\* and exits 0.
C1_Original ==
    (Completed /\ prev.outcome \in {"noop", "success", "failure"}
                   /\ UndisturbedSincePrev)
        => QuietNoOp

\* C1 (amended): if the first of two consecutive runs completed with exit code 0
\* (no call failed) and nothing wrote the tree or the manifest since it began,
\* then the second run never makes a call nor enters save_manifest, and when it
\* ends it has counted nothing, printed nothing, left the manifest file exactly
\* as the first run left it and exited 0.
C1_Idempotent ==
    (prev.outcome \in {"noop", "success"} /\ UndisturbedSincePrev)
        => /\ calls = <<>> /\ ~saved /\ mfile = atStart.mfile
           /\ outcome \in {"running", "noop", "killed"}
           /\ EndedByItself => QuietNoOp

C1_Witness ==
    /\ Completed /\ outcome = "noop"
    /\ prev.outcome = "success" /\ UndisturbedSincePrev
    /\ DOMAIN Persisted = {File_a, File_b}

(***************************************************************************)
(* C2 -- Partial failure accounting.                                       *)
(***************************************************************************)
FailedIngests == {rel \in Files : CallsWith("ingest_file", rel, "fail") # {}}
OkIngests     == {rel \in Files : CallsWith("ingest_file", rel, "ok") # {}}
FailedDeletes == {rel \in Files : CallsWith("delete_file", rel, "fail") # {}}
OkDeletes     == {rel \in Files : CallsWith("delete_file", rel, "ok") # {}}

PrevFailed(tool) == {c.path.rel : c \in {x \in prev.failedCalls : x.tool = tool}}

\* C2: a completed pass in which some ingest calls failed and no delete call
\* failed exits 1; each successfully ingested file has the digest of its content
\* in the persisted manifest and each failed file has the entry it had before
\* (or none); and a following pass in which every call succeeds, with the tree
\* and the manifest untouched since the failing pass began, calls ingest for
\* exactly the files whose ingest failed, once each.
C2_PartialFailure ==
    /\ (Completed /\ ~mchg /\ FailedIngests # {} /\ FailedDeletes = {})
        => /\ exit_code = 1
           /\ \A rel \in OkIngests :
                 /\ rel \in DOMAIN hashed
                 /\ Entry(Persisted, rel) = hashed[rel]
                 /\ ~chg => Entry(Persisted, rel) = DigestOnDisk(rel)
           /\ \A rel \in FailedIngests :
                 /\ Entry(Persisted, rel) = Entry(StartTracked, rel)
                 /\ ~chg => Entry(Persisted, rel) # DigestOnDisk(rel)
    /\ (EndedByItself /\ prev.outcome = "failure" /\ UndisturbedSincePrev /\ EveryCallOk)
        => /\ CalledRels("ingest_file") = PrevFailed("ingest_file")
           /\ \A rel \in Files : Cardinality(CallsOf("ingest_file", rel)) <= 1

\* k = 1 of n = 2 failed, and the following pass has retried the one
C2_Witness ==
    /\ Completed /\ outcome = "success"
    /\ prev.outcome = "failure" /\ UndisturbedSincePrev
    /\ PrevFailed("ingest_file") = {File_b}
    /\ PrevFailed("delete_file") = {}
    /\ CalledRels("ingest_file") = {File_b}
    /\ DOMAIN StartTracked = {File_a}

(***************************************************************************)
(* C3 -- Change detection.                                                 *)
(***************************************************************************)
\* C3: in a completed pass during which nobody else wrote, every tracked file in
\* scope whose content digest differs from its manifest entry got exactly one
\* ingest call, and when that call succeeded the persisted manifest holds the
\* digest of the new content; a file whose digest equals its entry got none.
C3_ChangeDetection ==
    (Completed /\ Undisturbed)
        => \A rel \in DOMAIN StartTracked :
              InScope(disk, rel)
                => IF StartTracked[rel] # DigestOnDisk(rel)
                   THEN /\ Cardinality(CallsOf("ingest_file", rel)) = 1
                        /\ rel \in OkIngests => Entry(Persisted, rel) = DigestOnDisk(rel)
                   ELSE CallsOf("ingest_file", rel) = {}

\* a.py was tracked with the digest of content 1, now holds 2 and was re-ingested,
\* while the unchanged b.py was not
C3_Witness ==
    /\ Completed /\ Undisturbed
    /\ Entry(StartTracked, File_a) = <<"sha256", 1>>
    /\ disk[File_a] = 2
    /\ File_a \in OkIngests
    /\ Entry(StartTracked, File_b) = DigestOnDisk(File_b)
    /\ InScope(disk, File_b)

(***************************************************************************)
(* C4 -- Deletion.                                                         *)
(***************************************************************************)
\* C4: in a completed pass during which nobody else wrote, every tracked path
\* that is no longer on disk got exactly one delete call, with the path
\* base_dir/f, and when that call succeeded f is no key of the persisted manifest.
C4_Deletion ==
    (Completed /\ Undisturbed)
        => \A rel \in DOMAIN StartTracked :
              disk[rel] = 0
                => /\ Cardinality(CallsOf("delete_file", rel)) = 1
                   /\ \A i \in CallsOf("delete_file", rel) :
                         calls[i].path = [base |-> Config.base_dir, rel |-> rel]
                   /\ rel \in OkDeletes => rel \notin DOMAIN Persisted

C4_Witness ==
    /\ Completed /\ Undisturbed
    /\ File_a \in DOMAIN StartTracked
    /\ disk[File_a] = 0
    /\ File_a \in OkDeletes
    /\ File_b \in DOMAIN Persisted

(***************************************************************************)
(* C5 -- No-op fast path.                                                  *)
(***************************************************************************)
\* the manifest the pass started from describes the tree exactly
TreeMatchesManifest ==
    /\ \A rel \in Files : InScope(disk, rel) => Entry(StartTracked, rel) = DigestOnDisk(rel)
    /\ \A rel \in DOMAIN StartTracked : InScope(disk, rel)

\* C5: a completed pass that met no changed file and no removed path (nobody
\* else wrote and the manifest described the tree, or the pass made no call at
\* all) exited 0 without entering save_manifest, left the manifest file (or its
\* absence) as it was and wrote nothing to stdout or stderr.
C5_NoOpFastPath ==
    (Completed /\ ~mchg /\ ((~chg /\ TreeMatchesManifest) \/ calls = <<>>))
        => QuietNoOp

\* a no-op pass over a tree whose two source files are tracked with their digests
C5_Witness ==
    /\ Completed /\ outcome = "noop" /\ Undisturbed
    /\ DOMAIN StartTracked = {File_a, File_b}
    /\ TreeMatchesManifest

(***************************************************************************)
(* C6 -- Persistence of partial progress.                                  *)
(***************************************************************************)
NoCallRaised == \A i \in DOMAIN calls : calls[i].res # "raise"

\* what the successful calls of the pass did is in the manifest file
ProgressPersisted ==
    /\ \A rel \in OkIngests : rel \in DOMAIN Persisted
                              /\ Persisted[rel] # Entry(StartTracked, rel)
    /\ \A rel \in OkDeletes : rel \notin DOMAIN Persisted

\* C6 as stated: every pass that ends by itself and is not a complete no-op
\* (a call of it succeeded, and every call returned) has entered save_manifest
\* before it exits, and what its successful calls did is in the persisted manifest.
C6_Original ==
    (EndedByItself /\ ~mchg /\ OkIngests \cup OkDeletes # {} /\ NoCallRaised)
        => saved /\ ProgressPersisted

\* C6 (amended): every pass that runs to completion (is neither aborted by an
\* exception nor killed) and is not a complete no-op has entered save_manifest
\* before it exits, also when calls failed and it exits 1: every entry updated
\* by a successful ingest holds the digest the pass computed and every entry
\* dropped by a successful delete is gone from the persisted manifest.
C6_PersistsProgress ==
    (Completed /\ calls # <<>>)
        => /\ saved
           /\ outcome \in {"success", "failure"}
           /\ ~mchg => /\ ProgressPersisted
                       /\ \A rel \in OkIngests : Persisted[rel] = hashed[rel]
                       /\ mfile.data.last_sync = <<"iso", clock>>

\* a pass that exits 1 after one successful and one failed ingest
C6_Witness ==
    /\ Completed /\ ~mchg
    /\ exit_code = 1
    /\ OkIngests # {} /\ FailedIngests # {}
    /\ saved
    /\ OkIngests \subseteq DOMAIN Persisted

(***************************************************************************)
(* C7 -- Exit contract.                                                    *)
(***************************************************************************)
\* C7: a pass that ran to completion exited 1 if and only if one of its ingest
\* or delete calls failed; a no-op pass and a pass whose calls all succeeded
\* exited 0.
C7_ExitContract ==
    Completed
        => /\ exit_code \in {0, 1}
           /\ exit_code = 1 <=> SomeCallFailed
           /\ outcome = "noop" => exit_code = 0
           /\ EveryCallOk => exit_code = 0

\* exit 1 caused by a failed delete alone
C7_Witness ==
    /\ Completed
    /\ exit_code = 1
    /\ FailedDeletes # {} /\ FailedIngests = {}

(***************************************************************************)
(* C8 -- Atomic save.                                                      *)
(***************************************************************************)
\* a complete manifest document
CompleteManifest(mf) ==
    /\ mf.kind = "json"
    /\ DOMAIN mf.data = {"files", "last_sync"}

\* C8: after the process was killed, at whatever point, the manifest file is
\* the complete previous manifest or a complete new one, never an empty or
\* cut-off file, so the next load_manifest does not fail.
C8_AtomicSave ==
    (pc = "idle" /\ outcome = "killed" /\ ~mchg)
        => /\ mfile = atStart.mfile \/ CompleteManifest(mfile)
           /\ mfile.kind # "partial"

(***************************************************************************)
(* C9 -- Manifest load.                                                    *)
(***************************************************************************)
\* the file exists and does not hold a manifest: not JSON, or no "files" in it
Malformed(mf) ==
    \/ mf.kind = "partial"
    \/ mf.kind = "json" /\ "files" \notin DOMAIN mf.data

TheEmptyManifest == [files |-> <<>>, last_sync |-> <<"None">>]

\* C9: the manifest a pass works from is the empty manifest exactly when there
\* was no manifest file; and a pass that found a malformed manifest file was
\* aborted by an exception before any ingest or delete call, never going on
\* with an empty tracked set.
C9_ManifestLoad ==
    /\ (pc = "ingest" /\ calls = <<>>)
         => (manifest = TheEmptyManifest <=> atStart.mfile.kind = "absent")
    /\ (outcome # "none" /\ Malformed(atStart.mfile))
         => outcome = "exception" /\ calls = <<>> /\ pc = "idle"

(***************************************************************************)
(* C10 -- Delete failure.                                                  *)
(***************************************************************************)
\* C10: after a completed pass every path whose delete call failed has its
\* manifest entry in place with the digest it had, the counter failed equals
\* the number of failed calls and removed the number of successful delete
\* calls; and a completed pass calls delete (once) for every path whose delete
\* failed in the pass before and that is still absent from the file set.
C10_DeleteFailure ==
    /\ (Completed /\ ~mchg)
         => \A rel \in FailedDeletes :
               /\ rel \in DOMAIN StartTracked
               /\ rel \in DOMAIN Persisted
               /\ Persisted[rel] = StartTracked[rel]
    /\ Completed
         => /\ failed = Cardinality({i \in DOMAIN calls : calls[i].res = "fail"})
            /\ removed = Cardinality({i \in AllCalls("delete_file") : calls[i].res = "ok"})
    /\ (Completed /\ ~prev.mchg)
         => \A rel \in PrevFailed("delete_file") :
               ~InScope(atStart.disk, rel)
                  => Cardinality(CallsOf("delete_file", rel)) = 1

\* the delete of a.py failed in the pass before and was called again
C10_Witness ==
    /\ Completed /\ ~mchg /\ ~prev.mchg
    /\ prev.outcome = "failure"
    /\ PrevFailed("delete_file") = {File_a}
    /\ CallsOf("delete_file", File_a) # {}
    /\ File_a \in DOMAIN StartTracked

(***************************************************************************)
(* C11 -- Per-file failures do not interrupt sibling processing.           *)
(***************************************************************************)
\* the pass was aborted by json.load in load_manifest
ManifestError == pc = "idle" /\ outcome = "exception" /\ atStart.mfile.kind = "partial"

\* the pass was aborted by subprocess.run raising inside mcp_call
LaunchError == pc = "idle" /\ outcome = "exception" /\ ~NoCallRaised

\* the pass was aborted by hash_file
HashError == pc = "idle" /\ outcome = "exception" /\ ~ManifestError /\ ~LaunchError

\* C11: in a pass that ended by itself without a hashing or manifest error, and
\* during which nobody else wrote, every file in scope whose digest differs from
\* its manifest entry (or that has none) got exactly one ingest attempt and
\* every tracked path out of the file set got exactly one delete attempt,
\* whatever the other calls of the pass did.
C11_SiblingsProcessed ==
    (EndedByItself /\ ~HashError /\ ~ManifestError /\ Undisturbed)
        => /\ \A rel \in Files :
                 (InScope(disk, rel) /\ Entry(StartTracked, rel) # DigestOnDisk(rel))
                    => Cardinality(CallsOf("ingest_file", rel)) = 1
           /\ \A rel \in DOMAIN StartTracked :
                 ~InScope(disk, rel) => Cardinality(CallsOf("delete_file", rel)) = 1

\* the same on passes that ran to completion, where it holds: both files changed,
\* the first attempt returned failure, the second file was attempted all the same
C11_OnCompletedPasses ==
    (Completed /\ Undisturbed)
        => /\ \A rel \in Files :
                 (InScope(disk, rel) /\ Entry(StartTracked, rel) # DigestOnDisk(rel))
                    => Cardinality(CallsOf("ingest_file", rel)) = 1
           /\ \A rel \in DOMAIN StartTracked :
                 ~InScope(disk, rel) => Cardinality(CallsOf("delete_file", rel)) = 1

(***************************************************************************)
(* C12 -- Phase ordering.                                                  *)
(***************************************************************************)
\* no delete call precedes an ingest call in the log of the pass
IngestsBeforeDeletes ==
    \A i, j \in DOMAIN calls :
        (calls[i].tool = "delete_file" /\ calls[j].tool = "ingest_file") => j < i

\* C12: at every moment of a pass all ingest calls made so far precede all
\* delete calls made so far; save_manifest is entered only when both loops are
\* over, and once it has been entered the pass makes no further call.
C12_PhaseOrdering ==
    /\ [](IngestsBeforeDeletes /\ (pc \in {"ingest", "delete"} => ~saved))
    /\ [][(saved /\ saved') => calls' = calls]_vars
    /\ [][(~saved /\ saved') => (pc = "save" /\ todo = {} /\ dtodo = {})]_vars

\* a pass that ingested, then deleted, then saved
C12_Witness ==
    /\ Completed /\ saved
    /\ Len(calls) = 2
    /\ calls[1].tool = "ingest_file" /\ calls[2].tool = "delete_file"

(***************************************************************************)
(* C13 -- Indexer calls do not throw.                                      *)
(***************************************************************************)
\* the diagnostics on stderr, as (tool, path) pairs
Diagnosed ==
    {<<stderr[i].tool, stderr[i].path>> :
        i \in {j \in DOMAIN stderr : stderr[j].kind = "failed_for"}}

\* C13: every mcp_call of the pass returned True or False, none raised; each
\* call that returned False left a diagnostic on stderr naming its tool and
\* path, and the calls that returned True left none.
C13_CallsDoNotThrow ==
    /\ \A i \in DOMAIN calls : calls[i].res \in {"ok", "fail"}
    /\ Diagnosed = {<<calls[i].tool, calls[i].path>> :
                       i \in {j \in DOMAIN calls : calls[j].res # "ok"}}

\* the part that holds: calls that return do so as the claim says
C13_ReturningCalls ==
    Diagnosed = {<<calls[i].tool, calls[i].path>> :
                    i \in {j \in DOMAIN calls : calls[j].res = "fail"}}

(***************************************************************************)
(* C14 -- A read failure during hashing is a hard failure.                 *)
(***************************************************************************)
SummaryLines(out) == {i \in DOMAIN out : out[i].kind = "summary"}

\* C14: a pass in which hash_file failed has ended with a traceback and exit
\* code 1, without a summary and without a per-file diagnostic for the
\* unreadable file; it issued no delete call, never entered save_manifest and
\* left the manifest file as it found it.  No file is skipped: a pass that
\* ran to completion has hashed every file of its file set from real content.
C14_HashFailure ==
    /\ HashError
        => /\ exit_code = 1
           /\ stderr # <<>> /\ stderr[Len(stderr)] = Traceback
           /\ SummaryLines(stderr) = {} /\ SummaryLines(stdout) = {}
           /\ Cardinality({i \in DOMAIN stderr : stderr[i].kind = "failed_for"})
                 = Cardinality({i \in DOMAIN calls : calls[i].res = "fail"})
           /\ AllCalls("delete_file") = {}
           /\ ~saved
           /\ ~mchg => mfile = atStart.mfile
    /\ Completed
        => \A rel \in DOMAIN current_files :
              /\ rel \in DOMAIN hashed
              /\ hashed[rel][2] \in Contents

\* a file vanished between collection and hashing, in a pass that had a
\* tracked file to delete
C14_Witness ==
    /\ HashError
    /\ \E rel \in DOMAIN StartTracked : ~InScope(atStart.disk, rel)

C16_RetryAfterCrash ==
    (EndedByItself /\ prev.outcome = "killed" /\ UndisturbedSincePrev /\ NoCallRaised)
        => \A rel \in Files :
              (InScope(disk, rel) /\ Entry(StartTracked, rel) # DigestOnDisk(rel))
                  => CallsOf("ingest_file", rel) # {}

(***************************************************************************)
(* Two sync processes on the same rag directory (the PostToolUse hook      *)
(* firing twice, or together with the SessionStart hook).  Each process    *)
(* runs sync once, on its own memory; the tree and the manifest file are   *)
(* shared.  The tree does not change while they run.                       *)
(***************************************************************************)
Procs == {"p1", "p2"}

FreshProc ==
    [pc |-> "idle", current_files |-> EmptyDict, manifest |-> EmptyDict,
     tracked |-> EmptyDict, todo |-> {}, dtodo |-> {},
     changed |-> 0, removed |-> 0, failed |-> 0,
     exit_code |-> -1, outcome |-> "none", stdout |-> <<>>, stderr |-> <<>>,
     \* history: the calls that succeeded, whether another process wrote the
     \* manifest file while this one had it open, whether the pass ran side by
     \* side with another one
     done |-> {}, clash |-> FALSE, overlapped |-> FALSE]

\* the trees the two processes find: a.py changed, b.py changed or removed
RaceTrees ==
    {[f \in Files |-> IF f = File_t THEN 1 ELSE 2],
     [f \in Files |-> IF f = File_a THEN 2 ELSE IF f = File_b THEN 0 ELSE 1]}

InitRace ==
    /\ disk \in RaceTrees
    /\ mfile \in {AbsentFile, SyncedManifest([f \in Files |-> 1])}
    /\ clock = 0
    /\ procs = [p \in Procs |-> FreshProc]
    /\ atStart = [disk |-> disk, mfile |-> mfile]
    /\ pc = "idle"
    /\ current_files = EmptyDict /\ manifest = EmptyDict /\ tracked = EmptyDict
    /\ todo = {} /\ dtodo = {}
    /\ changed = 0 /\ removed = 0 /\ failed = 0
    /\ exit_code = -1
    /\ stdout = <<>> /\ stderr = <<>>
    /\ outcome = "none"
    /\ calls = <<>>
    /\ saved = FALSE
    /\ hashed = EmptyDict
    /\ chg = FALSE /\ mchg = FALSE
    /\ prev = NoHistory
    /\ edits = 0
    /\ probe = NoProbe
    /\ settings_run = NoRun /\ claude_run = NoRun

\* what SpecRace leaves alone: the single process of Spec and its history
single == <<disk, pc, current_files, manifest, tracked, todo, dtodo,
            changed, removed, failed, exit_code, stdout, stderr,
            outcome, calls, saved, hashed, atStart, chg, mchg, prev, edits, probe,
            settings_run, claude_run>>

Running(q) == procs[q].pc \notin {"idle", "done"}

\* an uncaught exception: traceback, exit status 1
Aborted(l) ==
    [l EXCEPT !.pc = "done", !.outcome = "exception", !.exit_code = 1,
              !.stderr = Append(@, Traceback)]

\* sync, lines 164-175, in process p
RaceStart(p) ==
    /\ procs[p].pc = "idle"
    /\ clock' = clock + 1
    /\ LET over == \E q \in Procs \ {p} : Running(q)
           mine == IF LoadRaises(mfile)
                   THEN Aborted([procs[p] EXCEPT !.overlapped = over])
                   ELSE [procs[p] EXCEPT
                            !.pc = "ingest",
                            !.outcome = "running",
                            !.current_files = CollectFiles(Config, disk),
                            !.manifest = LoadManifest(mfile),
                            !.tracked = TrackedOf(LoadManifest(mfile)),
                            !.todo = DOMAIN CollectFiles(Config, disk),
                            !.overlapped = over]
       IN procs' = [q \in Procs |->
                       IF q = p THEN mine
                       ELSE IF Running(q) THEN [procs[q] EXCEPT !.overlapped = TRUE]
                       ELSE procs[q]]
    /\ UNCHANGED mfile
    /\ UNCHANGED single

\* one iteration of the ingest loop in process p
RaceIngest(p, rel, r) ==
    LET l == procs[p] IN
    /\ l.pc = "ingest"
    /\ rel \in l.todo
    /\ IF HashRaises(disk, rel)
       THEN /\ r = "ok"
            /\ procs' = [procs EXCEPT ![p] = Aborted(l)]
       ELSE LET new_hash == HashFile(disk, rel) IN
            IF NeedsIngest(l.tracked, rel, new_hash)
            THEN IF McpRaises(r)
                 THEN procs' = [procs EXCEPT ![p] = Aborted(l)]
                 ELSE procs' = [procs EXCEPT ![p] =
                         [l EXCEPT
                            !.tracked = AfterIngest(l.tracked, rel, new_hash, McpReturn(r)),
                            !.changed = IF McpReturn(r) THEN @ + 1 ELSE @,
                            !.failed = IF McpReturn(r) THEN @ ELSE @ + 1,
                            !.stderr = IF McpReturn(r) THEN @
                                       ELSE Append(@, McpDiagnostic("ingest_file",
                                                                    l.current_files[rel])),
                            !.done = IF McpReturn(r)
                                     THEN @ \cup {[tool |-> "ingest_file", rel |-> rel]}
                                     ELSE @,
                            !.todo = @ \ {rel}]]
            ELSE /\ r = "ok"
                 /\ procs' = [procs EXCEPT ![p].todo = @ \ {rel}]
    /\ UNCHANGED <<mfile, clock>>
    /\ UNCHANGED single

\* the ingest loop of process p is exhausted
RaceIngestDone(p) ==
    /\ procs[p].pc = "ingest"
    /\ procs[p].todo = {}
    /\ procs' = [procs EXCEPT ![p].pc = "delete",
                              ![p].dtodo = DOMAIN procs[p].tracked]
    /\ UNCHANGED <<mfile, clock>>
    /\ UNCHANGED single

\* one iteration of the delete loop in process p
RaceDelete(p, rel, r) ==
    LET l == procs[p] IN
    /\ l.pc = "delete"
    /\ rel \in l.dtodo
    /\ IF NeedsDelete(l.current_files, rel)
       THEN IF McpRaises(r)
            THEN procs' = [procs EXCEPT ![p] = Aborted(l)]
            ELSE procs' = [procs EXCEPT ![p] =
                    [l EXCEPT
                       !.tracked = AfterDelete(l.tracked, rel, McpReturn(r)),
                       !.removed = IF McpReturn(r) THEN @ + 1 ELSE @,
                       !.failed = IF McpReturn(r) THEN @ ELSE @ + 1,
                       !.stderr = IF McpReturn(r) THEN @
                                  ELSE Append(@, McpDiagnostic("delete_file",
                                                               DeletePath(Config, rel))),
                       !.done = IF McpReturn(r)
                                THEN @ \cup {[tool |-> "delete_file", rel |-> rel]}
                                ELSE @,
                       !.dtodo = @ \ {rel}]]
       ELSE /\ r = "ok"
            /\ procs' = [procs EXCEPT ![p].dtodo = @ \ {rel}]
    /\ UNCHANGED <<mfile, clock>>
    /\ UNCHANGED single

\* lines 195-198 in process p
RaceDeleteDone(p) ==
    LET l == procs[p] IN
    /\ l.pc = "delete"
    /\ l.dtodo = {}
    /\ IF IsNoOp(l.changed, l.removed, l.failed)
       THEN procs' = [procs EXCEPT ![p] =
                        [l EXCEPT !.pc = "done", !.outcome = "noop", !.exit_code = 0]]
       ELSE procs' = [procs EXCEPT ![p] =
                        [l EXCEPT !.pc = "save",
                                  !.manifest = DictSet(l.manifest, "files", l.tracked)]]
    /\ UNCHANGED <<mfile, clock>>
    /\ UNCHANGED single

\* save_manifest in process p: stamp, open the file for writing
RaceSaveOpen(p) ==
    /\ procs[p].pc = "save"
    /\ procs' = [procs EXCEPT ![p].pc = "dump",
                              ![p].manifest = Stamp(@, clock),
                              ![p].clash = FALSE]
    /\ mfile' = OpenForWrite(mfile)
    /\ UNCHANGED clock
    /\ UNCHANGED single

\* save_manifest in process p: json.dump and close.  Each process writes from
\* offset 0 of the file it opened; when another process has written the file
\* in the meantime, what results is this process' text, followed by the rest
\* of the other one's if that was longer (torn), which is no JSON document.
RaceSaveDump(p, torn) ==
    /\ procs[p].pc = "dump"
    /\ torn => procs[p].clash
    /\ mfile' = IF torn THEN PartialFile ELSE DumpAndClose(procs[p].manifest)
    /\ procs' = [q \in Procs |->
                    IF q = p THEN [procs[q] EXCEPT !.pc = "report"]
                    ELSE IF procs[q].pc = "dump" THEN [procs[q] EXCEPT !.clash = TRUE]
                    ELSE procs[q]]
    /\ UNCHANGED clock
    /\ UNCHANGED single

\* lines 201-208 in process p
RaceReport(p) ==
    LET l == procs[p] IN
    /\ l.pc = "report"
    /\ IF ReportsFailure(l.failed)
       THEN procs' = [procs EXCEPT ![p] =
                        [l EXCEPT !.pc = "done", !.outcome = "failure", !.exit_code = 1,
                                  !.stderr = Append(@, SummaryErr(l.changed, l.removed,
                                                                  l.failed))]]
       ELSE procs' = [procs EXCEPT ![p] =
                        [l EXCEPT !.pc = "done", !.outcome = "success", !.exit_code = 0,
                                  !.stdout = Append(@, SummaryOut(l.changed, l.removed))]]
    /\ UNCHANGED <<mfile, clock>>
    /\ UNCHANGED single

NextRace ==
    \/ \E p \in Procs : RaceStart(p)
    \/ \E p \in Procs, rel \in Files, r \in McpResults : RaceIngest(p, rel, r)
    \/ \E p \in Procs : RaceIngestDone(p)
    \/ \E p \in Procs, rel \in Files, r \in McpResults : RaceDelete(p, rel, r)
    \/ \E p \in Procs : RaceDeleteDone(p)
    \/ \E p \in Procs : RaceSaveOpen(p)
    \/ \E p \in Procs, torn \in BOOLEAN : RaceSaveDump(p, torn)
    \/ \E p \in Procs : RaceReport(p)

SpecRace == InitRace /\ [][NextRace]_vars

(***************************************************************************)
(* C17 -- Concurrent passes race on the manifest.                          *)
(***************************************************************************)
AllDone == \A p \in Procs : procs[p].pc = "done"

\* process p ran to completion, save_manifest included
RanToCompletion(p) == procs[p].pc = "done" /\ procs[p].outcome \in {"success", "failure"}

\* the manifest file is complete and yet is without the effect of a call that
\* succeeded in p: the digest of a file p ingested, or the removal of an
\* entry p deleted
LostUpdate(p) ==
    /\ RanToCompletion(p)
    /\ mfile.kind = "json"
    /\ \E c \in procs[p].done :
          \/ c.tool = "ingest_file" /\ Entry(Persisted, c.rel) # DigestOnDisk(c.rel)
          \/ c.tool = "delete_file" /\ c.rel \in DOMAIN Persisted

\* C17: nothing keeps two passes from running side by side, and only then can
\* an update be lost: when the two passes ran one after the other, the final
\* manifest holds the effect of every call that succeeded in a pass that ran
\* to completion.  (That a lost update is reachable is C17_Witness.)
C17_LostUpdateOnlyByRace ==
    \A p \in Procs : (AllDone /\ LostUpdate(p)) => procs[p].overlapped

\* both passes ran to completion, side by side, and the final manifest is
\* without an entry one of them ingested
C17_Witness ==
    /\ AllDone
    /\ \A p \in Procs : RanToCompletion(p)
    /\ \E p \in Procs : LostUpdate(p)

(***************************************************************************)
(* C18 -- Scenario: indexer down.                                          *)
(***************************************************************************)
\* a printed line that contains the word "failed": the diagnostic of mcp_call,
\* and the summary that gives the failed count
MentionsFailed(line) ==
    \/ line.kind = "failed_for"
    \/ line.kind = "summary" /\ "failed" \in DOMAIN line

\* C18: a pass that started without a manifest, ran to completion and whose
\* calls were ingest calls that all failed has exited 1; the tracked mapping it
\* persisted is empty, so no failed file gained an entry; its summary is on
\* stderr, contains the word "failed" and counts every call; stdout is empty.
C18_IndexerDown ==
    (/\ Completed /\ ~mchg
     /\ atStart.mfile.kind = "absent"
     /\ calls # <<>>
     /\ \A i \in DOMAIN calls : calls[i].tool = "ingest_file" /\ calls[i].res = "fail")
        => /\ exit_code = 1
           /\ Persisted = EmptyDict
           /\ \A rel \in FailedIngests : rel \notin DOMAIN Persisted
           /\ \E i \in DOMAIN stderr :
                 /\ stderr[i].kind = "summary"
                 /\ MentionsFailed(stderr[i])
                 /\ stderr[i].failed = Len(calls)
           /\ stdout = <<>>

\* both files of the tree were tried and both failed
C18_Witness ==
    /\ Completed /\ ~mchg
    /\ atStart.mfile.kind = "absent"
    /\ FailedIngests = {File_a, File_b}
    /\ \A i \in DOMAIN calls : calls[i].res = "fail"
    /\ exit_code = 1

(***************************************************************************)
(* C19 -- Summary routing.                                                 *)
(***************************************************************************)
CountCalls(tool, res) ==
    Cardinality({i \in DOMAIN calls : calls[i].tool = tool /\ calls[i].res = res})
CountFailed == Cardinality({i \in DOMAIN calls : calls[i].res = "fail"})

NumSummaries == Cardinality(SummaryLines(stdout)) + Cardinality(SummaryLines(stderr))

\* the summary is the last line printed on out, with the counts of the call log
SummaryOn(out) ==
    /\ out # <<>>
    /\ out[Len(out)].kind = "summary"
    /\ out[Len(out)].changed = CountCalls("ingest_file", "ok")
    /\ out[Len(out)].removed = CountCalls("delete_file", "ok")

\* C19 as stated: every pass that has ended by itself and was not a no-op (it
\* made a call, and every call it made returned) has printed exactly one
\* summary.
C19_Original ==
    (EndedByItself /\ calls # <<>> /\ NoCallRaised) => NumSummaries = 1

\* C19 (amended): every pass that runs to completion and is not a no-op prints
\* exactly one summary with its counts: when no call failed, on stdout with the
\* updated and removed counts, and stderr stays empty; when a call failed, on
\* stderr with the updated, removed and failed counts, and stdout stays empty.
\* A no-op pass prints nothing.
C19_SummaryRouting ==
    Completed
        => /\ calls = <<>> => (stdout = <<>> /\ stderr = <<>>)
           /\ calls # <<>> => NumSummaries = 1
           /\ (calls # <<>> /\ ~SomeCallFailed)
                 => (SummaryOn(stdout) /\ stderr = <<>>)
           /\ SomeCallFailed
                 => /\ SummaryOn(stderr)
                    /\ MentionsFailed(stderr[Len(stderr)])
                    /\ stderr[Len(stderr)].failed = CountFailed
                    /\ stdout = <<>>

\* a summary on stderr: one file removed, one ingest failed
C19_Witness ==
    /\ Completed
    /\ CountCalls("ingest_file", "fail") = 1
    /\ CountCalls("delete_file", "ok") = 1
    /\ SummaryOn(stderr)
    /\ stdout = <<>>

(***************************************************************************)
(* collect_files on its own: a configuration and a tree are chosen, then   *)
(* the function is applied.                                                *)
(***************************************************************************)
\* the paths of the trees: files next to each other and three levels deep, a
\* directory whose name has a suffix, a dot file, a file without suffix
ProbeFiles ==
    {<<"src", "a.py">>, <<"src", "notes.txt">>, <<"src", ".py">>,
     <<"src", "pkg.py", "deep.py">>, <<"src", "pkg.py", "m.md">>,
     <<"README.md">>, <<"Makefile">>}

ProbeTrees == [ProbeFiles -> {0, 1}]

\* included_paths: empty, directories, files named directly, a missing path,
\* overlapping entries
ProbeIncluded ==
    {<<>>,
     << <<"src">> >>,
     << <<"src">>, <<"README.md">> >>,
     << <<"src", "pkg.py">>, <<"src">> >>,
     << <<"src", "notes.txt">>, <<"Makefile">>, <<"src", "a.py">> >>,
     << <<"docs">>, <<"src", "pkg.py">> >>}

ProbeExtensions == {{}, {".py"}, {".py", ".md"}, {".txt", ""}}

ProbeConfigs ==
    {[base_dir |-> BaseDir, included_paths |-> inc, extensions |-> ext] :
        inc \in ProbeIncluded, ext \in ProbeExtensions}

InitCollect ==
    /\ probe \in {[config |-> c, tree |-> t, called |-> FALSE, files |-> EmptyDict] :
                     c \in ProbeConfigs, t \in ProbeTrees}
    /\ procs = NoProcs
    /\ settings_run = NoRun /\ claude_run = NoRun
    /\ disk = [f \in Files |-> 1]
    /\ mfile = AbsentFile
    /\ clock = 0
    /\ atStart = [disk |-> disk, mfile |-> mfile]
    /\ pc = "idle"
    /\ current_files = EmptyDict /\ manifest = EmptyDict /\ tracked = EmptyDict
    /\ todo = {} /\ dtodo = {}
    /\ changed = 0 /\ removed = 0 /\ failed = 0
    /\ exit_code = -1
    /\ stdout = <<>> /\ stderr = <<>>
    /\ outcome = "none"
    /\ calls = <<>>
    /\ saved = FALSE
    /\ hashed = EmptyDict
    /\ chg = FALSE /\ mchg = FALSE
    /\ prev = NoHistory
    /\ edits = 0

\* files = collect_files(config)
CollectCall ==
    /\ ~probe.called
    /\ probe' = [probe EXCEPT !.called = TRUE,
                              !.files = CollectFiles(probe.config, probe.tree)]
    /\ UNCHANGED <<disk, mfile, clock, pc, current_files, manifest, tracked, todo,
                   dtodo, changed, removed, failed, exit_code, stdout, stderr,
                   outcome, calls, saved, hashed, atStart, chg, mchg, prev, edits,
                   procs, settings_run, claude_run>>

NextCollect == CollectCall

SpecCollect == InitCollect /\ [][NextCollect]_vars

(***************************************************************************)
(* C20 -- Extension filtering.                                             *)
(***************************************************************************)
\* f is an existing regular file that is an entry of included_paths or lies
\* below one
UnderIncluded(f) ==
    /\ f \in DOMAIN probe.tree /\ probe.tree[f] # 0
    /\ \E i \in DOMAIN probe.config.included_paths :
          IsPrefix(probe.config.included_paths[i], f)

\* C20: whatever the configuration and the tree, every key collect_files
\* returns is an existing regular file under an included path with a suffix in
\* extensions, and every such file is a key.
C20_ExtensionFiltering ==
    probe.called
        => /\ \A k \in DOMAIN probe.files :
                 Suffix(k) \in probe.config.extensions /\ UnderIncluded(k)
           /\ \A f \in ProbeFiles :
                 (UnderIncluded(f) /\ Suffix(f) \in probe.config.extensions)
                     => f \in DOMAIN probe.files

\* a file three levels down and a file named directly are keys, while a file
\* with another suffix and a dot file next to them are not
C20_Witness ==
    /\ probe.called
    /\ <<"src", "pkg.py", "deep.py">> \in DOMAIN probe.files
    /\ <<"README.md">> \in DOMAIN probe.files
    /\ UnderIncluded(<<"src", "notes.txt">>)
    /\ UnderIncluded(<<"src", ".py">>)
    /\ DOMAIN probe.files \cap {<<"src", "notes.txt">>, <<"src", ".py">>} = {}

(***************************************************************************)
(* Passes on a tree nobody edits, started from any tree and any complete   *)
(* manifest: what an earlier configuration, earlier contents or an earlier *)
(* interrupted pass can have left behind.                                  *)
(***************************************************************************)
\* notes.txt is there or not; a.py and b.py are missing or hold one of the contents
QuietTrees ==
    {d \in [Files -> Contents \cup {0}] : d[File_t] \in {0, 1}}

\* files mappings: any subset of the paths, each with the digest of some content
QuietTracked ==
    UNION {[S -> {<<"sha256", c>> : c \in Contents}] : S \in SUBSET Files}

QuietManifests ==
    {AbsentFile} \cup
    {JsonFile([files |-> m, last_sync |-> IsoFormat(0)]) :
        m \in {t \in QuietTracked : File_t \in DOMAIN t => t[File_t] = <<"sha256", 1>>}}

InitQuiet ==
    /\ disk \in QuietTrees
    /\ mfile \in QuietManifests
    /\ clock = 0
    /\ pc = "idle"
    /\ current_files = EmptyDict
    /\ manifest = EmptyDict
    /\ tracked = EmptyDict
    /\ todo = {}
    /\ dtodo = {}
    /\ changed = 0 /\ removed = 0 /\ failed = 0
    /\ exit_code = -1
    /\ stdout = <<>> /\ stderr = <<>>
    /\ outcome = "none"
    /\ calls = <<>>
    /\ saved = FALSE
    /\ hashed = EmptyDict
    /\ atStart = [disk |-> disk, mfile |-> mfile]
    /\ chg = FALSE
    /\ mchg = FALSE
    /\ prev = NoHistory
    /\ edits = 0
    /\ procs = NoProcs
    /\ probe = NoProbe
    /\ settings_run = NoRun /\ claude_run = NoRun

NextQuiet ==
    \/ StartPass
    \/ \E rel \in Files, r \in McpResults : IngestStep(rel, r)
    \/ IngestDone
    \/ \E rel \in Files, r \in McpResults : DeleteStep(rel, r)
    \/ DeleteDone
    \/ SaveOpen
    \/ SaveDump
    \/ Report
    \/ Kill

SpecQuiet == InitQuiet /\ [][NextQuiet]_vars

(***************************************************************************)
(* C21 -- A configured path that is missing.                               *)
(***************************************************************************)
\* nothing of the tree is at p or below it
Missing(d, p) == \A f \in DOMAIN d : IsPrefix(p, f) => d[f] = 0

MissingEntries ==
    {i \in DOMAIN Config.included_paths : Missing(atStart.disk, Config.included_paths[i])}

\* the files in scope below the entries that do exist
UnderPresentEntries ==
    {f \in Files :
        /\ atStart.disk[f] # 0
        /\ Suffix(f) \in Config.extensions
        /\ \E i \in DOMAIN Config.included_paths \ MissingEntries :
              IsPrefix(Config.included_paths[i], f)}

\* C21: with one or more entries of included_paths missing on disk, the pass
\* is not ended by an error on that account, its file set is exactly what the
\* entries that exist contribute, and, once it has run to completion, every
\* tracked path below a missing entry has received one delete call, which
\* drops its entry from the manifest when it succeeds.
C21_MissingPath ==
    MissingEntries # {}
        => /\ outcome = "exception" => (atStart.mfile.kind = "partial" \/ ~NoCallRaised)
           /\ (pc # "idle" \/ Completed) => DOMAIN current_files = UnderPresentEntries
           /\ Completed
                 => \A rel \in DOMAIN StartTracked :
                       (\E i \in MissingEntries : IsPrefix(Config.included_paths[i], rel))
                           => /\ Cardinality(CallsOf("delete_file", rel)) = 1
                              /\ rel \in OkDeletes => rel \notin DOMAIN Persisted
                              /\ rel \in FailedDeletes
                                    => Entry(Persisted, rel) = StartTracked[rel]

\* src has disappeared with two tracked files below it, which the pass removed
C21_Witness ==
    /\ Completed
    /\ Missing(atStart.disk, <<"src">>)
    /\ {File_a, File_b} \subseteq DOMAIN StartTracked
    /\ {File_a, File_b} \subseteq OkDeletes
    /\ DOMAIN Persisted \cap {File_a, File_b} = {}

(***************************************************************************)
(* wire_hooks (hooks.py).  A JSON object is a sequence of key/value pairs, *)
(* in the order of the file; a command string is the sequence of its      *)
(* words.                                                                  *)
(***************************************************************************)
OdKeys(od) == {od[i].key : i \in DOMAIN od}

\* dict.get(k, default)
OdGet(od, k, default) ==
    IF k \in OdKeys(od)
    THEN od[CHOOSE i \in DOMAIN od : od[i].key = k].value
    ELSE default

\* d[k] = v: in place when the key is there, at the end otherwise
OdSet(od, k, v) ==
    IF k \in OdKeys(od)
    THEN [i \in DOMAIN od |-> IF od[i].key = k THEN [key |-> k, value |-> v] ELSE od[i]]
    ELSE Append(od, [key |-> k, value |-> v])

MANAGED_MARKER == "rag/sync.py"
HOOK_TIMEOUT == 30

\* _MANAGED_MARKER in command
HasMarker(command) == \E i \in DOMAIN command : command[i] = MANAGED_MARKER

\* variant with a slip: no entry is recognised as managed
IsManaged_Never(entry) == FALSE

\* _is_managed
IsManaged(entry) ==
    \E i \in DOMAIN entry.hooks :
        HasMarker(IF "command" \in DOMAIN entry.hooks[i]
                  THEN entry.hooks[i].command ELSE <<>>)

\* f'"{python_cmd}" rag/sync.py'
SyncCommand(python_cmd) == <<python_cmd, "rag/sync.py">>

ManagedHook(python_cmd) ==
    [type |-> "command", command |-> SyncCommand(python_cmd), timeout |-> HOOK_TIMEOUT]

\* rag_hooks, lines 39-64
RagHooks(python_cmd) ==
    << [key |-> "PostToolUse",
        value |-> << [matcher |-> "Write|Edit", hooks |-> <<ManagedHook(python_cmd)>>] >>],
       [key |-> "SessionStart",
        value |-> << [matcher |-> "startup", hooks |-> <<ManagedHook(python_cmd)>>] >>] >>

NotManaged(e) == ~IsManaged(e)

\* lines 78-82: drop the managed entries, and the events left without entries
RECURSIVE Strip(_, _, _)
Strip(existing_hooks, i, cleaned) ==
    IF i > Len(existing_hooks) THEN cleaned
    ELSE LET filtered == SelectSeq(existing_hooks[i].value, NotManaged)
         IN  Strip(existing_hooks, i + 1,
                   IF filtered # <<>>
                   THEN OdSet(cleaned, existing_hooks[i].key, filtered)
                   ELSE cleaned)

\* lines 85-86: cleaned.setdefault(event, []).extend(new_entries)
RECURSIVE AddFresh(_, _, _)
AddFresh(rag_hooks, i, cleaned) ==
    IF i > Len(rag_hooks) THEN cleaned
    ELSE AddFresh(rag_hooks, i + 1,
                  OdSet(cleaned, rag_hooks[i].key,
                        OdGet(cleaned, rag_hooks[i].key, <<>>) \o rag_hooks[i].value))

\* settings.json: missing, or a JSON object in some layout
AbsentSettings == [kind |-> "absent", data |-> <<>>, layout |-> "none"]
SettingsFile(data, layout) == [kind |-> "json", data |-> data, layout |-> layout]

\* lines 69-73
LoadSettings(file) == IF file.kind = "absent" THEN <<>> ELSE file.data

\* json.dump(settings, f, indent=2)
DumpSettings(settings) == SettingsFile(settings, "indent2")

\* wire_hooks: the file it leaves
WireHooks(file, python_cmd) ==
    LET settings == LoadSettings(file)
        existing_hooks == OdGet(settings, "hooks", <<>>)
        cleaned == AddFresh(RagHooks(python_cmd), 1, Strip(existing_hooks, 1, <<>>))
    IN  DumpSettings(OdSet(settings, "hooks", cleaned))

\* the settings files wire_hooks is tried on
UserHook(command) == [type |-> "command", command |-> command]

E_lint == [matcher |-> "Bash", hooks |-> <<UserHook(<<"echo", "hello">>)>>]
E_fmt  == [matcher |-> "Write|Edit", hooks |-> <<UserHook(<<"fmt">>)>>]
\* written by an earlier run with another interpreter, and by this one
E_old  == [matcher |-> "Write|Edit", hooks |-> <<ManagedHook("/old/python")>>]
E_cur  == [matcher |-> "Write|Edit", hooks |-> <<ManagedHook("/venv/python")>>]
\* the user has put a hook of their own next to the sync hook, under its matcher
E_mix  == [matcher |-> "Write|Edit",
           hooks |-> <<ManagedHook("/old/python"), UserHook(<<"fmt">>)>>]

EntryLists ==
    {<<>>, <<E_lint>>, <<E_old>>, <<E_cur>>, <<E_lint, E_old>>, <<E_old, E_lint>>,
     <<E_lint, E_old, E_fmt>>, <<E_old, E_old>>, <<E_mix>>, <<E_lint, E_mix>>}

Events == {"PostToolUse", "SessionStart", "Stop"}

HooksObjects ==
    {<<>>}
    \cup {<<[key |-> ev, value |-> es]>> : ev \in Events, es \in EntryLists}
    \cup {<<[key |-> evs[1], value |-> es1], [key |-> evs[2], value |-> es2]>> :
             evs \in {p \in Events \X Events : p[1] # p[2]},
             es1 \in EntryLists, es2 \in EntryLists}

Permissions == [key |-> "permissions", value |-> "allow"]

SettingsObjects ==
    {<<>>, <<Permissions>>}
    \cup {<<[key |-> "hooks", value |-> h]>> : h \in HooksObjects}
    \cup {<<Permissions, [key |-> "hooks", value |-> h]>> : h \in HooksObjects}
    \cup {<<[key |-> "hooks", value |-> h], Permissions>> : h \in HooksObjects}

SettingsFiles == {AbsentSettings} \cup {SettingsFile(o, "asfound") : o \in SettingsObjects}

InitHooks ==
    /\ settings_run \in {[file |-> f, before |-> f, first |-> f, n |-> 0,
                          python_cmd |-> "/venv/python"] : f \in SettingsFiles}
    /\ claude_run = NoRun
    /\ procs = NoProcs
    /\ probe = NoProbe
    /\ disk = [f \in Files |-> 1]
    /\ mfile = AbsentFile
    /\ clock = 0
    /\ atStart = [disk |-> disk, mfile |-> mfile]
    /\ pc = "idle"
    /\ current_files = EmptyDict /\ manifest = EmptyDict /\ tracked = EmptyDict
    /\ todo = {} /\ dtodo = {}
    /\ changed = 0 /\ removed = 0 /\ failed = 0
    /\ exit_code = -1
    /\ stdout = <<>> /\ stderr = <<>>
    /\ outcome = "none"
    /\ calls = <<>>
    /\ saved = FALSE
    /\ hashed = EmptyDict
    /\ chg = FALSE /\ mchg = FALSE
    /\ prev = NoHistory
    /\ edits = 0

\* wire_hooks(project_root, python_cmd)
WireHooksCall ==
    /\ settings_run.n < MaxCalls
    /\ LET after == WireHooks(settings_run.file, settings_run.python_cmd)
       IN settings_run' = [settings_run EXCEPT
                              !.file = after,
                              !.first = IF settings_run.n = 0 THEN after ELSE @,
                              !.n = @ + 1]
    /\ UNCHANGED <<disk, mfile, clock, pc, current_files, manifest, tracked, todo,
                   dtodo, changed, removed, failed, exit_code, stdout, stderr,
                   outcome, calls, saved, hashed, atStart, chg, mchg, prev, edits,
                   procs, probe, claude_run>>

NextHooks == WireHooksCall

SpecHooks == InitHooks /\ [][NextHooks]_vars

(***************************************************************************)
(* C22 -- wire_hooks is idempotent.                                        *)
(***************************************************************************)
HooksOf(file) == OdGet(file.data, "hooks", <<>>)

\* the entries under event ev with a command that references rag/sync.py
ManagedEntries(file, ev) ==
    LET entries == OdGet(HooksOf(file), ev, <<>>)
    IN  {i \in DOMAIN entries :
            \E j \in DOMAIN entries[i].hooks :
                \E w \in DOMAIN entries[i].hooks[j].command :
                    entries[i].hooks[j].command[w] = "rag/sync.py"}

\* C22: after one or more calls of wire_hooks with the same python_cmd the
\* settings file is the one the first call left, and the PostToolUse and
\* SessionStart lists hold exactly one managed entry each.
C22_WireHooksIdempotent ==
    settings_run.n >= 1
        => /\ settings_run.file = settings_run.first
           /\ settings_run.file.kind = "json"
           /\ \A ev \in {"PostToolUse", "SessionStart"} :
                 Cardinality(ManagedEntries(settings_run.file, ev)) = 1

\* three calls on a file that held user hooks, a stale managed hook and two
\* managed entries under one event
C22_Witness ==
    /\ settings_run.n = 3
    /\ Cardinality(ManagedEntries(settings_run.before, "SessionStart")) = 2
    /\ OdGet(HooksOf(settings_run.before), "PostToolUse", <<>>) = <<E_lint, E_old, E_fmt>>

(***************************************************************************)
(* C23 -- wire_hooks and the hooks of others.                              *)
(***************************************************************************)
NoMarker(command) == \A w \in DOMAIN command : command[w] # "rag/sync.py"

\* the commands under the entries from i on that do not reference rag/sync.py
RECURSIVE UnrelatedFrom(_, _)
UnrelatedFrom(entries, i) ==
    IF i > Len(entries) THEN <<>>
    ELSE SelectSeq([j \in DOMAIN entries[i].hooks |-> entries[i].hooks[j].command],
                   NoMarker)
         \o UnrelatedFrom(entries, i + 1)

UnrelatedCommands(file, ev) == UnrelatedFrom(OdGet(HooksOf(file), ev, <<>>), 1)

\* a occurs in b, in order
RECURSIVE IsSubseq(_, _)
IsSubseq(a, b) ==
    IF a = <<>> THEN TRUE
    ELSE IF b = <<>> THEN FALSE
    ELSE IF Head(a) = Head(b) THEN IsSubseq(Tail(a), Tail(b))
    ELSE IsSubseq(a, Tail(b))

OtherKeysUnchanged ==
    /\ OdKeys(settings_run.file.data) \ {"hooks"} = OdKeys(settings_run.before.data) \ {"hooks"}
    /\ \A k \in OdKeys(settings_run.before.data) \ {"hooks"} :
          OdGet(settings_run.file.data, k, None) = OdGet(settings_run.before.data, k, None)

\* C23: after wire_hooks, every command that does not reference rag/sync.py and
\* was in the settings before is still there, under the same event and in the
\* same relative order, and every top-level key but hooks is unchanged.
C23_UnrelatedHooksKept ==
    settings_run.n >= 1
        => /\ \A ev \in Events :
                 IsSubseq(UnrelatedCommands(settings_run.before, ev),
                          UnrelatedCommands(settings_run.file, ev))
           /\ OtherKeysUnchanged

\* what does hold: the entries without any managed hook are kept, in order, and
\* so are the other top-level keys
UnmanagedEntries(file, ev) == SelectSeq(OdGet(HooksOf(file), ev, <<>>), NotManaged)

C23_UnmanagedEntriesKept ==
    settings_run.n >= 1
        => /\ \A ev \in Events :
                 UnmanagedEntries(settings_run.file, ev)
                    = UnmanagedEntries(settings_run.before, ev)
           /\ OtherKeysUnchanged

(***************************************************************************)
(* write_claude_md (claude_md.py).  A text is the sequence of its pieces:  *)
(* a marker, a line break, or a run of other text.                         *)
(***************************************************************************)
START_MARKER == "<!-- claude-rag-sync:start -->"
END_MARKER == "<!-- claude-rag-sync:end -->"
NL == "\n"
Whitespace == {NL}

\* marker in text
Contains(text, piece) == \E i \in DOMAIN text : text[i] = piece

\* text.index(piece), for a piece that occurs
Index(text, piece) ==
    CHOOSE i \in DOMAIN text :
        text[i] = piece /\ \A j \in 1..(i - 1) : text[j] # piece

RECURSIVE RStrip(_)
RStrip(text) ==
    IF text # <<>> /\ text[Len(text)] \in Whitespace
    THEN RStrip(SubSeq(text, 1, Len(text) - 1))
    ELSE text

RECURSIVE LStrip(_)
LStrip(text) ==
    IF text # <<>> /\ Head(text) \in Whitespace THEN LStrip(Tail(text)) ELSE text

StripWs(text) == LStrip(RStrip(text))

\* text.index(_END_MARKER) raises ValueError
StripRaises(text) == Contains(text, START_MARKER) /\ ~Contains(text, END_MARKER)

\* _strip_managed_section, where it returns
StripManagedSection(text) ==
    IF ~Contains(text, START_MARKER) THEN text
    ELSE LET before == SubSeq(text, 1, Index(text, START_MARKER) - 1)
             after_end == SubSeq(text, Index(text, END_MARKER) + 1, Len(text))
         IN  RStrip(before) \o <<NL>> \o LStrip(after_end)

\* the stripped template text after substitution (the template file is not
\* part of the sources; it is taken to hold text and no marker)
NewContent == "new section"

\* f"{_START_MARKER}\n{content.strip()}\n{_END_MARKER}\n"
Section == <<START_MARKER, NL, NewContent, NL, END_MARKER, NL>>

AbsentMd == [kind |-> "absent", text |-> <<>>]
MdFile(text) == [kind |-> "text", text |-> text]

\* claude_md_path.read_text() if claude_md_path.exists() else ""
ReadMd(file) == IF file.kind = "absent" THEN <<>> ELSE file.text

\* write_claude_md: the file it leaves, where it does not raise
WriteClaudeMd(file) ==
    LET existing == ReadMd(file)
        stripped == StripManagedSection(existing)
    IN  MdFile(IF StripWs(stripped) # <<>>
               THEN RStrip(stripped) \o <<NL, NL>> \o Section
               ELSE Section)

\* the prior contents write_claude_md is tried on
Pieces == {START_MARKER, END_MARKER, NL, "# Project", "Other content.", "Old content."}

PriorTexts == UNION {[1..k -> Pieces] : k \in 0..MaxLen}

PriorFiles == {AbsentMd} \cup {MdFile(t) : t \in PriorTexts}

InitClaudeMd ==
    /\ claude_run \in {[file |-> f, before |-> f, n |-> 0, raised |-> FALSE] :
                          f \in PriorFiles}
    /\ settings_run = NoRun
    /\ procs = NoProcs
    /\ probe = NoProbe
    /\ disk = [f \in Files |-> 1]
    /\ mfile = AbsentFile
    /\ clock = 0
    /\ atStart = [disk |-> disk, mfile |-> mfile]
    /\ pc = "idle"
    /\ current_files = EmptyDict /\ manifest = EmptyDict /\ tracked = EmptyDict
    /\ todo = {} /\ dtodo = {}
    /\ changed = 0 /\ removed = 0 /\ failed = 0
    /\ exit_code = -1
    /\ stdout = <<>> /\ stderr = <<>>
    /\ outcome = "none"
    /\ calls = <<>>
    /\ saved = FALSE
    /\ hashed = EmptyDict
    /\ chg = FALSE /\ mchg = FALSE
    /\ prev = NoHistory
    /\ edits = 0

\* write_claude_md(project_root, config)
WriteClaudeMdCall ==
    /\ claude_run.n < MaxCalls
    /\ IF StripRaises(ReadMd(claude_run.file))
       THEN claude_run' = [claude_run EXCEPT !.n = @ + 1, !.raised = TRUE]
       ELSE claude_run' = [claude_run EXCEPT !.n = @ + 1, !.raised = FALSE,
                                             !.file = WriteClaudeMd(claude_run.file)]
    /\ UNCHANGED <<disk, mfile, clock, pc, current_files, manifest, tracked, todo,
                   dtodo, changed, removed, failed, exit_code, stdout, stderr,
                   outcome, calls, saved, hashed, atStart, chg, mchg, prev, edits,
                   procs, probe, settings_run>>

NextClaudeMd == WriteClaudeMdCall

SpecClaudeMd == InitClaudeMd /\ [][NextClaudeMd]_vars

(***************************************************************************)
(* C24 -- write_claude_md replaces rather than accumulates.                *)
(***************************************************************************)
Count(text, piece) == Cardinality({i \in DOMAIN text : text[i] = piece})

\* the text (markers and line breaks left out) inside a managed section, or
\* outside every such section: a start marker opens a section, the next end
\* marker closes it
RECURSIVE Scan(_, _, _, _)
Scan(text, i, inside, want) ==
    IF i > Len(text) THEN <<>>
    ELSE IF text[i] = START_MARKER THEN Scan(text, i + 1, TRUE, want)
    ELSE IF text[i] = END_MARKER THEN Scan(text, i + 1, FALSE, want)
    ELSE IF text[i] \in Whitespace \/ inside # want THEN Scan(text, i + 1, inside, want)
    ELSE <<text[i]>> \o Scan(text, i + 1, inside, want)

InsideText(text) == Scan(text, 1, FALSE, TRUE)
OutsideText(text) == Scan(text, 1, FALSE, FALSE)

Replaced ==
    /\ ~claude_run.raised
    /\ Count(claude_run.file.text, START_MARKER) = 1
    /\ Count(claude_run.file.text, END_MARKER) = 1
    /\ InsideText(claude_run.file.text) = <<"new section">>
    /\ OutsideText(claude_run.file.text) = OutsideText(claude_run.before.text)

\* C24: whatever CLAUDE.md held before, after one or more calls of
\* write_claude_md the file has exactly one start marker and one end marker,
\* the managed section holds the new content only, and the text that was
\* outside the markers is still there.
C24_ReplacesSection ==
    claude_run.n >= 1 => Replaced

\* a prior content with no managed section, or with one managed section
WellFormed(text) ==
    \/ Count(text, START_MARKER) = 0 /\ Count(text, END_MARKER) = 0
    \/ /\ Count(text, START_MARKER) = 1 /\ Count(text, END_MARKER) = 1
       /\ Index(text, START_MARKER) < Index(text, END_MARKER)

\* what does hold: the same, for a prior content that is well formed
C24_OnWellFormed ==
    (claude_run.n >= 1 /\ WellFormed(claude_run.before.text)) => Replaced

(***************************************************************************)
(* C25 -- Removal is decided by membership in the file set.                *)
(***************************************************************************)
\* tracked, still on disk, but not (or no longer) within the configured scope
TrackedOutOfScope ==
    {rel \in DOMAIN StartTracked : atStart.disk[rel] # 0 /\ ~InScope(atStart.disk, rel)}

\* C25: a pass that ran to completion has called delete exactly once for every
\* tracked path that is still on disk but outside the file set; where the call
\* succeeded the path is gone from the persisted manifest, where it failed its
\* entry is kept.
C25_RemovalByMembership ==
    Completed
        => \A rel \in TrackedOutOfScope :
              /\ Cardinality(CallsOf("delete_file", rel)) = 1
              /\ CallsOf("ingest_file", rel) = {}
              /\ rel \in OkDeletes => rel \notin DOMAIN Persisted
              /\ rel \in FailedDeletes => Entry(Persisted, rel) = StartTracked[rel]

\* notes.txt is tracked from a time when .txt was among the extensions; it is
\* still on disk, and the pass has removed it from the index and the manifest
C25_Witness ==
    /\ Completed
    /\ File_t \in TrackedOutOfScope
    /\ disk[File_t] # 0
    /\ File_t \in OkDeletes
    /\ File_t \notin DOMAIN Persisted

(***************************************************************************)
(* C26 -- At most one indexer call per path per pass.                      *)
(***************************************************************************)
\* the entries of included_paths through which rel is reachable
EntriesReaching(rel) ==
    {i \in DOMAIN Config.included_paths : IsPrefix(Config.included_paths[i], rel)}

\* C26: in the call log of a pass, whatever point the pass has reached, no path
\* has more than one ingest call or more than one delete call, and no path has
\* both; this includes a.py, which is reachable through the entry src and
\* through the entry src/a.py.
C26_OneCallPerPath ==
    \A rel \in Files :
        /\ Cardinality(CallsOf("ingest_file", rel)) <= 1
        /\ Cardinality(CallsOf("delete_file", rel)) <= 1
        /\ CallsOf("ingest_file", rel) = {} \/ CallsOf("delete_file", rel) = {}

\* a.py, reachable through two entries, was ingested once, in a pass that also
\* deleted a path
C26_Witness ==
    /\ Completed
    /\ Cardinality(EntriesReaching(File_a)) = 2
    /\ Cardinality(CallsOf("ingest_file", File_a)) = 1
    /\ AllCalls("delete_file") # {}

(***************************************************************************)
(* C27 -- Convergence after a clean pass.                                  *)
(***************************************************************************)
\* C27: after a pass that ran to completion without a failure (no-op or
\* success) on a tree that did not change meanwhile, the persisted files
\* mapping has exactly the files of the configured scope as keys, each with
\* the digest of its content, whatever the manifest held before the pass.
C27_Convergence ==
    (Completed /\ outcome \in {"noop", "success"} /\ Undisturbed)
        => /\ DOMAIN Persisted = {f \in Files : InScope(disk, f)}
           /\ \A f \in DOMAIN Persisted : Persisted[f] = DigestOnDisk(f)

\* the manifest had a stale digest for a.py, none for b.py and an entry for
\* notes.txt; one pass has put all three right
C27_Witness ==
    /\ Completed /\ outcome = "success"
    /\ DOMAIN StartTracked = {File_a, File_t}
    /\ StartTracked[File_a] # DigestOnDisk(File_a)
    /\ DOMAIN Persisted = {File_a, File_b}
    /\ \A f \in DOMAIN Persisted : Persisted[f] = DigestOnDisk(f)

(***************************************************************************)
(* C29 -- Count accounting.                                                *)
(***************************************************************************)
\* C29: in a pass that ran to completion the three counters add up to the
\* number of calls; updated is the number of ingest calls that succeeded,
\* removed the number of delete calls that succeeded, failed the number of
\* calls that failed; and the persisted manifest has as many entries as the
\* one the pass started from, plus the successful ingests of paths that were
\* not tracked, minus removed.
C29_CountAccounting ==
    Completed
        => /\ changed + removed + failed = Len(calls)
           /\ changed = CountCalls("ingest_file", "ok")
           /\ removed = CountCalls("delete_file", "ok")
           /\ failed = CountFailed
           /\ ~mchg
                 => Cardinality(DOMAIN Persisted)
                       = Cardinality(DOMAIN StartTracked)
                         + Cardinality(OkIngests \ DOMAIN StartTracked)
                         - removed

\* one new file ingested, one tracked path removed, one call failed
C29_Witness ==
    /\ Completed /\ ~mchg
    /\ changed = 1 /\ removed = 1 /\ failed = 1
    /\ OkIngests \ DOMAIN StartTracked # {}

(***************************************************************************)
(* C30 -- A pass in which every operation failed still writes the manifest.*)
(***************************************************************************)
LastSyncOf(mf) ==
    IF mf.kind = "json" /\ "last_sync" \in DOMAIN mf.data THEN mf.data.last_sync
    ELSE <<"None">>

\* C30: a pass that ran to completion and whose calls all failed has called
\* save_manifest; the manifest file is there and complete, its last_sync is
\* the time of this pass and differs from the one loaded, and its files
\* mapping is the one loaded.  A no-op pass leaves last_sync as it was.
C30_AllFailedStillSaves ==
    /\ (Completed /\ ~mchg /\ calls # <<>> /\ \A i \in DOMAIN calls : calls[i].res = "fail")
          => /\ saved
             /\ mfile.kind = "json"
             /\ LastSyncOf(mfile) = <<"iso", clock>>
             /\ LastSyncOf(mfile) # LastSyncOf(atStart.mfile)
             /\ Persisted = StartTracked
    /\ (Completed /\ ~mchg /\ calls = <<>>)
          => LastSyncOf(mfile) = LastSyncOf(atStart.mfile)

\* the manifest was there with entries; they are all kept and last_sync moved
C30_Witness ==
    /\ Completed /\ ~mchg
    /\ calls # <<>> /\ \A i \in DOMAIN calls : calls[i].res = "fail"
    /\ atStart.mfile.kind = "json"
    /\ StartTracked # <<>>
    /\ Persisted = StartTracked
    /\ LastSyncOf(mfile) # LastSyncOf(atStart.mfile)

(***************************************************************************)
(* The pass and the index side by side.  mcp_call hands the indexer the    *)
(* path of the file, which the indexer reads by itself after sync has      *)
(* hashed it; the editor can rewrite the file in between.                  *)
(***************************************************************************)
\* one iteration of the ingest loop during which the file is rewritten to c
\* after hash_file has read it and before the indexer reads it
IngestStepRaced(rel, r, c) ==
    /\ pc = "ingest"
    /\ rel \in todo
    /\ edits < MaxEdits
    /\ ~HashRaises(disk, rel)
    /\ c # disk[rel]
    /\ LET new_hash == HashFile(disk, rel) IN
       /\ NeedsIngest(tracked, rel, new_hash)
       /\ disk' = [disk EXCEPT ![rel] = c]
       /\ edits' = edits + 1
       /\ chg' = TRUE
       /\ calls' = Append(calls, [tool |-> "ingest_file", path |-> current_files[rel],
                                  res |-> r, read |-> c])
       /\ IF McpRaises(r)
          THEN Raise
          ELSE /\ tracked' = AfterIngest(tracked, rel, new_hash, McpReturn(r))
               /\ changed' = IF McpReturn(r) THEN changed + 1 ELSE changed
               /\ failed' = IF McpReturn(r) THEN failed ELSE failed + 1
               /\ stderr' = IF McpReturn(r) THEN stderr
                            ELSE Append(stderr,
                                   McpDiagnostic("ingest_file", current_files[rel]))
               /\ todo' = todo \ {rel}
               /\ hashed' = DictSet(hashed, rel, new_hash)
               /\ UNCHANGED <<pc, outcome, exit_code, current_files, manifest,
                              dtodo, removed>>
    /\ UNCHANGED <<mfile, clock, stdout, saved, atStart, mchg, prev>>
    /\ UNCHANGED aside

NextIndex ==
    \/ StartPass
    \/ \E rel \in Files, r \in McpResults : IngestStep(rel, r)
    \/ \E rel \in Files, r \in McpResults, c \in Contents : IngestStepRaced(rel, r, c)
    \/ IngestDone
    \/ \E rel \in Files, r \in McpResults : DeleteStep(rel, r)
    \/ DeleteDone
    \/ SaveOpen
    \/ SaveDump
    \/ Report
    \/ \E f \in Files, c \in Contents \cup {0} : EditFile(f, c)

SpecIndex == Init /\ [][NextIndex]_vars

(***************************************************************************)
(* C28 -- Manifest and index do not drift across completed passes.         *)
(***************************************************************************)
\* the digest of the content the indexer read in call i: the content hashed,
\* unless the file was rewritten in between
DigestRead(i) ==
    IF "read" \in DOMAIN calls[i] THEN <<"sha256", calls[i].read>>
    ELSE hashed[calls[i].path.rel]

\* what a truthful indexer holds after the calls of the pass, having agreed
\* with the manifest when the pass started
IndexKeys == (DOMAIN StartTracked \cup OkIngests) \ OkDeletes

IndexAfter ==
    [rel \in IndexKeys |->
        IF rel \in OkIngests
        THEN DigestRead(CHOOSE i \in CallsWith("ingest_file", rel, "ok") : TRUE)
        ELSE StartTracked[rel]]

\* no file was rewritten between hash_file and the indexer reading it
NoRewriteInBetween == \A i \in DOMAIN calls : "read" \notin DOMAIN calls[i]

\* C28 as stated: after every pass that ran to completion, whatever changed in
\* the tree and whichever calls failed, the persisted files mapping is the
\* mapping the indexer holds.
C28_Original ==
    (Completed /\ ~mchg) => Persisted = IndexAfter

\* C28 (amended): the same, for passes during which no file was rewritten
\* between its hashing and its ingestion.
C28_NoDrift ==
    (Completed /\ ~mchg /\ NoRewriteInBetween) => Persisted = IndexAfter

\* the tree changed during the pass, one call succeeded and one failed
C28_Witness ==
    /\ Completed /\ ~mchg /\ NoRewriteInBetween
    /\ chg
    /\ OkIngests # {} /\ SomeCallFailed
    /\ Persisted = IndexAfter

====
